---- MODULE Spec2Model ----
(***************************************************************************)
(* A model of bot.py: a Telegram bot that forwards text messages to a      *)
(* remote chat API (Dify), keeps one conversation id per user in a         *)
(* process-wide dict and persists that dict to conversations.json at       *)
(* shutdown.                                                               *)
(*                                                                         *)
(* A python dict with the single key 'conversation_id' is a record         *)
(* [conversation_id |-> x], where x = NoKey says the key is absent.        *)
(* user_conversations, a defaultdict(dict), is the sequence of its items   *)
(* in insertion order.  Handler coroutines are cut at their awaits: one    *)
(* action runs the code between two awaits.                                *)
(***************************************************************************)
EXTENDS Integers, Sequences, FiniteSets, TLC

VARIABLES
    phase,               \* position of __main__: "boot", "loaded", "running", "exited"
    user_conversations,  \* the defaultdict of line 27, items in insertion order
    storage_file,        \* content of STORAGE_FILE on disk
    tasks,               \* one handle_message coroutine per slot
    load_result,         \* how the last load_conversations ended
    save_result,         \* how the last save_conversations ended
    saves,               \* calls of save_conversations since the process started
    runs,                \* process starts after the first one (bounded)
    msgs,                \* text messages received so far (bounded)
    last_reply_id        \* per user, the id of the last processed reply that carried one

vars == <<phase, user_conversations, storage_file, tasks, load_result,
          save_result, saves, runs, msgs, last_reply_id>>

----------------------------------------------------------------------------
(* Bounds and small input sets *)

MaxRuns == 1
MaxMsgs == 2

Users == {"u1", "u2"}
Tasks == {"t1", "t2"}
Queries == {"hello"}
NoKey == "<absent>"
\* conversation ids the remote API may put in a reply; "" is an empty string
ReplyIds == {"", "c1", "c2"}
Answers == {"hi"}
\* HTTP error statuses raise_for_status() turns into HTTPStatusError
NOT_FOUND == 404
ErrorStatuses == {NOT_FOUND, 500}

----------------------------------------------------------------------------
(* Python dicts *)

EmptyDict == [conversation_id |-> NoKey]

\* bool(v) of a dict v: true iff it has a key
TruthyDict(v) == v.conversation_id # NoKey

\* bool(s) of an optional string: None (absent) and "" are falsy
TruthyStr(s) == s # NoKey /\ s # ""

\* k in user_conversations
Has(d, k) == \E i \in DOMAIN d : d[i].k = k

Index(d, k) == CHOOSE i \in DOMAIN d : d[i].k = k

\* defaultdict.__getitem__: a missing key is inserted with dict() first
GetItem(d, k) == IF Has(d, k) THEN d ELSE Append(d, [k |-> k, v |-> EmptyDict])

\* the value the mapping holds for k; a user never seen has the empty state
Get(d, k) == IF Has(d, k) THEN d[Index(d, k)].v ELSE EmptyDict

\* user_conversations[k]['conversation_id'] = c
SetConversationId(d, k, c) ==
    LET e == GetItem(d, k)
    IN  [e EXCEPT ![Index(e, k)].v.conversation_id = c]

----------------------------------------------------------------------------
(* JSON text of the backing file *)

JsonObject(v) == [type |-> "object", conversation_id |-> v.conversation_id]
JsonNumber == [type |-> "number", conversation_id |-> NoKey]

NoFile == [kind |-> "absent", entries |-> << >>]
Garbage == [kind |-> "garbage", entries |-> << >>]
Truncated == [kind |-> "truncated", entries |-> << >>]
JsonFile(entries) == [kind |-> "object", entries |-> entries]

\* files the process may find at its first start
InitFiles ==
    { NoFile,
      Garbage,
      JsonFile(<< >>),
      JsonFile(<< [k |-> "u1", v |-> JsonObject([conversation_id |-> "c1"])] >>),
      JsonFile(<< [k |-> "u2", v |-> JsonObject(EmptyDict)] >>),
      JsonFile(<< [k |-> "u1", v |-> JsonObject([conversation_id |-> "c1"])],
                  [k |-> "u2", v |-> JsonNumber] >>) }

----------------------------------------------------------------------------
(* Conversation store: load_conversations and save_conversations *)

\* the entry is created but the loaded value is not merged into it
DictUpdate_Ignore(d, k, v) == GetItem(d, k)

\* user_conversations[k].update(v) for a JSON object v
DictUpdate(d, k, v) ==
    IF v.conversation_id # NoKey
    THEN SetConversationId(d, k, v.conversation_id)
    ELSE GetItem(d, k)

\* the loop of lines 36-37 over the parsed items, in file order.
\* user_conversations[k] is evaluated (and inserts k) before .update(v) runs;
\* .update of a value that is no object raises and ends the loop.
RECURSIVE LoadItems(_, _)
LoadItems(d, entries) ==
    IF entries = << >>
    THEN [mem |-> d, ok |-> TRUE]
    ELSE LET e == Head(entries)
         IN  IF e.v.type # "object"
             THEN [mem |-> GetItem(d, e.k), ok |-> FALSE]
             ELSE LoadItems(DictUpdate(d, e.k, e.v), Tail(entries))

\* load_conversations on mapping d and file f; readable = open() and read work
LoadOutcome(d, f, readable) ==
    IF f.kind = "absent"
    THEN [mem |-> d, result |-> "nofile"]
    ELSE IF ~readable \/ f.kind # "object"
    THEN [mem |-> d, result |-> "error"]
    ELSE LET r == LoadItems(d, f.entries)
         IN  [mem |-> r.mem, result |-> IF r.ok THEN "ok" ELSE "error"]

\* every item is written, the empty ones too
Dump_All(d) ==
    [i \in 1..Len(d) |-> [k |-> d[i].k, v |-> JsonObject(d[i].v)]]

\* {k: v for k, v in user_conversations.items() if v}, as JSON members
Dump(d) ==
    LET kept == SelectSeq(d, LAMBDA e : TruthyDict(e.v))
    IN  [i \in 1..Len(kept) |-> [k |-> kept[i].k, v |-> JsonObject(kept[i].v)]]

\* outcomes of open(STORAGE_FILE, 'w') followed by json.dump
IoOutcomes == {"ok", "open_failed", "write_failed"}

\* the file after save_conversations: open(.., 'w') truncates the file before
\* json.dump writes, so a failed write leaves a truncated file behind
SaveFile(d, f, io) ==
    CASE io = "ok" -> JsonFile(Dump(d))
      [] io = "open_failed" -> f
      [] io = "write_failed" -> Truncated

----------------------------------------------------------------------------
(* Remote chat client: call_dify_api *)

NoPayload ==
    [inputs |-> NoKey, query |-> NoKey, response_mode |-> NoKey,
     user |-> NoKey, conversation_id |-> NoKey]

\* the stored value is sent whenever the key is there, an empty id too
BuildPayload_AnyStored(q, u, stored) ==
    [inputs |-> "{}", query |-> q, response_mode |-> "blocking", user |-> u,
     conversation_id |-> stored]

\* the payload of lines 86-94 for a stored id (NoKey when the key is absent)
BuildPayload(q, u, stored) ==
    [inputs |-> "{}", query |-> q, response_mode |-> "blocking", user |-> u,
     conversation_id |-> IF TruthyStr(stored) THEN stored ELSE NoKey]

\* a retry on every 404, whether or not the request carried an id
ShouldRetry_Any404(status, payload) == status = NOT_FOUND

\* a retry on every error status of a request that carried an id
ShouldRetry_AnyStatus(status, payload) == payload.conversation_id # NoKey

\* line 64
ShouldRetry(status, payload) ==
    status = NOT_FOUND /\ payload.conversation_id # NoKey

\* payload.pop("conversation_id")
Pop(payload) == [payload EXCEPT !.conversation_id = NoKey]

\* the diagnostic reply carries an empty conversation id
ApiErrorReply_WithId(status) ==
    [answer |-> "API Error: " \o ToString(status), conversation_id |-> ""]

\* line 68 (the warning sign that starts the literal is left out)
ApiErrorReply(status) ==
    [answer |-> "API Error: " \o ToString(status), conversation_id |-> NoKey]

\* the connectivity handler returns an empty dict
UnavailableReply_Empty == [answer |-> NoKey, conversation_id |-> NoKey]

\* line 71
UnavailableReply ==
    [answer |-> "Service unavailable, please try later", conversation_id |-> NoKey]

\* JSON bodies of a 2xx response
Responses == [answer : Answers \cup {NoKey}, conversation_id : ReplyIds \cup {NoKey}]

NoResponse == [answer |-> NoKey, conversation_id |-> NoKey]

\* how one outbound POST ended
Ok(body) == [kind |-> "ok", status |-> 200, body |-> body]
StatusError(status) == [kind |-> "status", status |-> status, body |-> NoResponse]
ConnError == [kind |-> "conn", status |-> 0, body |-> NoResponse]

----------------------------------------------------------------------------
(* Message handler: handle_message *)

Idle ==
    [pc |-> "idle", user_id |-> NoKey, query |-> NoKey, payload |-> NoPayload,
     reqs |-> << >>, outs |-> << >>, response |-> NoResponse, text |-> NoKey]

\* the returned id is never written to the mapping
StoreReply_Never(d, u, response) == d

\* a reply without an id clears the stored id
StoreReply_Clear(d, u, response) ==
    SetConversationId(d, u, response.conversation_id)

\* an id is stored only when the user has none yet
StoreReply_KeepFirst(d, u, response) ==
    IF response.conversation_id # NoKey /\ Get(d, u).conversation_id = NoKey
    THEN SetConversationId(d, u, response.conversation_id)
    ELSE d

\* one dict shared by all users: the id is written to every entry
StoreReply_Shared(d, u, response) ==
    IF response.conversation_id # NoKey
    THEN [i \in DOMAIN d |-> [d[i] EXCEPT !.v.conversation_id = response.conversation_id]]
    ELSE d

\* lines 98-99
StoreReply(d, u, response) ==
    IF response.conversation_id # NoKey
    THEN SetConversationId(d, u, response.conversation_id)
    ELSE d

\* response["answer"] with no default
ReplyText_NoDefault(response) == response.answer

\* response.get("answer", <placeholder>), line 101
ReplyText(response) ==
    IF response.answer # NoKey THEN response.answer ELSE "No response received"

\* the mapping is written to the file each time a reply is processed
Return_Persist(t, out, response) ==
    /\ user_conversations' = StoreReply(user_conversations, tasks[t].user_id, response)
    /\ storage_file' = JsonFile(Dump(StoreReply(user_conversations, tasks[t].user_id, response)))
    /\ last_reply_id' =
          IF response.conversation_id # NoKey
          THEN [last_reply_id EXCEPT ![tasks[t].user_id] = response.conversation_id]
          ELSE last_reply_id
    /\ tasks' = [tasks EXCEPT ![t].pc = "replying",
                              ![t].outs = Append(@, out),
                              ![t].response = response,
                              ![t].text = ReplyText(response)]

\* call_dify_api returns `response` to handle_message, which runs lines 98-101
\* up to the await of reply_text; nothing here writes the file
Return(t, out, response) ==
    /\ user_conversations' = StoreReply(user_conversations, tasks[t].user_id, response)
    /\ storage_file' = storage_file
    /\ last_reply_id' =
          IF response.conversation_id # NoKey
          THEN [last_reply_id EXCEPT ![tasks[t].user_id] = response.conversation_id]
          ELSE last_reply_id
    /\ tasks' = [tasks EXCEPT ![t].pc = "replying",
                              ![t].outs = Append(@, out),
                              ![t].response = response,
                              ![t].text = ReplyText(response)]

\* a text message arrives: lines 79-84 up to the await of send_chat_action
handle_message(t, u, q) ==
    /\ phase = "running"
    /\ tasks[t].pc = "idle"
    /\ msgs < MaxMsgs
    /\ msgs' = msgs + 1
    /\ tasks' = [tasks EXCEPT ![t] = [Idle EXCEPT !.pc = "typing", !.user_id = u, !.query = q]]
    /\ UNCHANGED <<phase, user_conversations, storage_file, load_result,
                   save_result, saves, runs, last_reply_id>>

\* send_chat_action raises: nothing catches it in handle_message, the
\* coroutine ends at line 81 and the framework calls error_handler
send_chat_action_raises(t) ==
    /\ phase = "running"
    /\ tasks[t].pc = "typing"
    /\ tasks' = [tasks EXCEPT ![t].pc = "failed"]
    /\ UNCHANGED <<phase, user_conversations, storage_file, load_result,
                   save_result, saves, runs, msgs, last_reply_id>>

\* lines 103-105: the error is logged
error_handler(t) ==
    /\ phase = "running"
    /\ tasks[t].pc = "failed"
    /\ tasks' = [tasks EXCEPT ![t] = Idle]
    /\ UNCHANGED <<phase, user_conversations, storage_file, load_result,
                   save_result, saves, runs, msgs, last_reply_id>>

\* send_chat_action returns: lines 86-96 and call_dify_api up to the await
\* of client.post (line 59)
send_chat_action_returns(t) ==
    /\ phase = "running"
    /\ tasks[t].pc = "typing"
    /\ LET u == tasks[t].user_id
           d == GetItem(user_conversations, u)
           payload == BuildPayload(tasks[t].query, u, Get(d, u).conversation_id)
       IN  /\ user_conversations' = d
           /\ tasks' = [tasks EXCEPT ![t].pc = "posting",
                                     ![t].payload = payload,
                                     ![t].reqs = << payload >>]
    /\ UNCHANGED <<phase, storage_file, load_result, save_result, saves,
                   runs, msgs, last_reply_id>>

\* the POST answers 2xx with a JSON body: lines 60-61
post_returns(t, body) ==
    /\ phase = "running"
    /\ tasks[t].pc = "posting"
    /\ Return(t, Ok(body), body)
    /\ UNCHANGED <<phase, load_result, save_result, saves, runs, msgs>>

\* raise_for_status raises HTTPStatusError: lines 62-68
post_status_error(t, status) ==
    /\ phase = "running"
    /\ tasks[t].pc = "posting"
    /\ IF ShouldRetry(status, tasks[t].payload)
       THEN /\ tasks' = [tasks EXCEPT ![t].payload = Pop(@),
                                      ![t].reqs = Append(@, Pop(tasks[t].payload)),
                                      ![t].outs = Append(@, StatusError(status))]
            /\ UNCHANGED <<user_conversations, storage_file, last_reply_id>>
       ELSE Return(t, StatusError(status), ApiErrorReply(status))
    /\ UNCHANGED <<phase, load_result, save_result, saves, runs, msgs>>

\* the POST fails below HTTP (timeout, DNS, refused, bad body): lines 69-71
post_raises(t) ==
    /\ phase = "running"
    /\ tasks[t].pc = "posting"
    /\ Return(t, ConnError, UnavailableReply)
    /\ UNCHANGED <<phase, load_result, save_result, saves, runs, msgs>>

\* reply_text returns: handle_message is done
reply_text_returns(t) ==
    /\ phase = "running"
    /\ tasks[t].pc = "replying"
    /\ tasks' = [tasks EXCEPT ![t] = Idle]
    /\ UNCHANGED <<phase, user_conversations, storage_file, load_result,
                   save_result, saves, runs, msgs, last_reply_id>>

----------------------------------------------------------------------------
(* Process life cycle: __main__ and handle_shutdown *)

\* a process starts: the module level (line 27 binds an empty mapping) and
\* load_conversations() of line 115.  The first start is from "boot", a later
\* one follows an exit.
load_conversations ==
    /\ \/ phase = "boot" /\ runs' = runs
       \/ phase = "exited" /\ runs < MaxRuns /\ runs' = runs + 1
    /\ \E readable \in BOOLEAN :
          LET r == LoadOutcome(<< >>, storage_file, readable)
          IN  /\ user_conversations' = r.mem
              /\ load_result' = r.result
    /\ phase' = "loaded"
    /\ tasks' = [t \in Tasks |-> Idle]
    /\ save_result' = "none"
    /\ saves' = 0
    /\ last_reply_id' = [u \in Users |-> NoKey]
    /\ UNCHANGED <<storage_file, msgs>>

\* lines 117-129: the signal handlers are set and the application polls
run_polling ==
    /\ phase = "loaded"
    /\ phase' = "running"
    /\ UNCHANGED <<user_conversations, storage_file, tasks, load_result,
                   save_result, saves, runs, msgs, last_reply_id>>

\* SIGINT or SIGTERM: save_conversations() then exit(0); the coroutines in
\* flight are abandoned
handle_shutdown(io) ==
    /\ phase \in {"loaded", "running"}
    /\ storage_file' = SaveFile(user_conversations, storage_file, io)
    /\ save_result' = io
    /\ saves' = saves + 1
    /\ phase' = "exited"
    /\ UNCHANGED <<user_conversations, tasks, load_result, runs, msgs,
                   last_reply_id>>

----------------------------------------------------------------------------

Init ==
    /\ phase = "boot"
    /\ user_conversations = << >>
    /\ storage_file \in InitFiles
    /\ tasks = [t \in Tasks |-> Idle]
    /\ load_result = "none"
    /\ save_result = "none"
    /\ saves = 0
    /\ runs = 0
    /\ msgs = 0
    /\ last_reply_id = [u \in Users |-> NoKey]

Next ==
    \/ load_conversations
    \/ run_polling
    \/ \E io \in IoOutcomes : handle_shutdown(io)
    \/ \E t \in Tasks, u \in Users, q \in Queries : handle_message(t, u, q)
    \/ \E t \in Tasks : send_chat_action_raises(t)
    \/ \E t \in Tasks : error_handler(t)
    \/ \E t \in Tasks : send_chat_action_returns(t)
    \/ \E t \in Tasks, body \in Responses : post_returns(t, body)
    \/ \E t \in Tasks, status \in ErrorStatuses : post_status_error(t, status)
    \/ \E t \in Tasks : post_raises(t)
    \/ \E t \in Tasks : reply_text_returns(t)

Spec == Init /\ [][Next]_vars

----------------------------------------------------------------------------
(* Remote chat client claims *)

IsStatus(out, status) == out.kind = "status" /\ out.status = status

\* C1: a send makes at most two outbound calls; a second call is made iff
\* the first one returned 404 and its request carried a conversation id; the
\* second request carries no id; a 404 on the second call ends the send with
\* the 404 diagnostic and no third call.
C1_AtMostOneRetry ==
    \A t \in Tasks :
        LET r == tasks[t]
        IN  /\ Len(r.reqs) <= 2
            /\ Len(r.outs) <= Len(r.reqs)
            /\ Len(r.reqs) = 2 <=>
                 /\ Len(r.outs) >= 1
                 /\ IsStatus(r.outs[1], 404)
                 /\ r.reqs[1].conversation_id # NoKey
            /\ Len(r.reqs) = 2 => r.reqs[2].conversation_id = NoKey
            /\ (Len(r.outs) = 2 /\ IsStatus(r.outs[2], 404)) =>
                 /\ r.pc = "replying"
                 /\ Len(r.reqs) = 2
                 /\ r.response = [answer |-> "API Error: 404", conversation_id |-> NoKey]

\* a send whose retried call returned 404 too
C1_Witness ==
    \E t \in Tasks :
        /\ tasks[t].pc = "replying"
        /\ Len(tasks[t].outs) = 2
        /\ IsStatus(tasks[t].outs[1], 404)
        /\ IsStatus(tasks[t].outs[2], 404)

\* the send of task t ended in this step as: 404 for a request with an id,
\* then 200 with an answer and a conversation id for the retried request
RetryRecovered(t) ==
    /\ tasks[t].pc = "posting"
    /\ tasks'[t].pc = "replying"
    /\ Len(tasks'[t].outs) = 2
    /\ IsStatus(tasks'[t].outs[1], 404)
    /\ tasks'[t].reqs[1].conversation_id # NoKey
    /\ tasks'[t].outs[2].kind = "ok"
    /\ tasks'[t].outs[2].body.answer # NoKey
    /\ tasks'[t].outs[2].body.conversation_id # NoKey

\* C2: when the API answers 404 to the request with the stale id and 200 with
\* an answer and a new id to the request without one, send returns that
\* answer and id after exactly two calls, the text for the user is that
\* answer, and the stored id of the user becomes the new id.
C2_StaleIdRecovered ==
    [][\A t \in Tasks :
          RetryRecovered(t) =>
            LET r == tasks'[t]
                body == r.outs[2].body
            IN  /\ r.response.answer = body.answer
                /\ r.response.conversation_id = body.conversation_id
                /\ Len(r.reqs) = 2
                /\ r.reqs[2] = [r.reqs[1] EXCEPT !.conversation_id = NoKey]
                /\ r.text = body.answer
                /\ Get(user_conversations', r.user_id).conversation_id
                     = body.conversation_id]_vars

\* stale "c1" was sent, the retry returned "hi" and "c2", and "c2" is stored
C2_Witness ==
    \E t \in Tasks :
        /\ tasks[t].pc = "replying"
        /\ Len(tasks[t].outs) = 2
        /\ IsStatus(tasks[t].outs[1], 404)
        /\ tasks[t].reqs[1].conversation_id = "c1"
        /\ tasks[t].outs[2].kind = "ok"
        /\ tasks[t].outs[2].body = [answer |-> "hi", conversation_id |-> "c2"]
        /\ tasks[t].text = "hi"
        /\ Get(user_conversations, tasks[t].user_id).conversation_id = "c2"

\* C3: a first call that returns an error status other than 404, or 404 for
\* a request without a conversation id, ends the send with the diagnostic
\* text that embeds the status, after exactly one call.
C3_OtherStatusNotRetried ==
    \A t \in Tasks :
        LET r == tasks[t]
        IN  ( /\ Len(r.outs) >= 1
              /\ r.outs[1].kind = "status"
              /\ \/ r.outs[1].status # 404
                 \/ r.reqs[1].conversation_id = NoKey ) =>
            /\ r.pc = "replying"
            /\ Len(r.reqs) = 1
            /\ Len(r.outs) = 1
            /\ r.response.answer = "API Error: " \o ToString(r.outs[1].status)
            /\ r.response.conversation_id = NoKey
            /\ r.text = r.response.answer

\* a 500 for a request that carried an id, and a 404 for one that did not
C3_Witness ==
    /\ \E t \in Tasks :
          /\ tasks[t].pc = "replying"
          /\ tasks[t].outs = << StatusError(500) >>
          /\ tasks[t].reqs[1].conversation_id # NoKey
          /\ tasks[t].text = "API Error: 500"
    /\ \E t \in Tasks :
          /\ tasks[t].pc = "replying"
          /\ tasks[t].outs = << StatusError(404) >>
          /\ tasks[t].reqs[1].conversation_id = NoKey

\* C4: a call that fails at connectivity level is the last call of its send,
\* which returns the service-unavailable answer; when it is the first call
\* the send made exactly one call.
C4_ConnErrorNotRetried ==
    \A t \in Tasks :
        LET r == tasks[t]
        IN  \A i \in DOMAIN r.outs :
                r.outs[i].kind = "conn" =>
                    /\ i = Len(r.outs)
                    /\ Len(r.reqs) = i
                    /\ r.pc = "replying"
                    /\ r.response = [answer |-> "Service unavailable, please try later",
                                     conversation_id |-> NoKey]
                    /\ r.text = "Service unavailable, please try later"

\* the first call of a send timed out
C4_Witness ==
    \E t \in Tasks :
        /\ tasks[t].pc = "replying"
        /\ tasks[t].outs = << ConnError >>
        /\ Len(tasks[t].reqs) = 1

----------------------------------------------------------------------------
(* Conversation store claims *)

\* a process exits in this step / a process starts after an exit in this step
ExitStep == phase # "exited" /\ phase' = "exited"
RestartStep == phase = "exited" /\ phase' = "loaded"

\* every user with a non-empty state in d has the same state in e
Kept(d, e) == \A u \in Users : TruthyDict(Get(d, u)) => Get(e, u) = Get(d, u)

\* C5 as stated: after a user's id is set in memory, a save and a load into
\* an empty store give every user with a non-empty state the same id again.
C5_RoundTrip_Original ==
    [][RestartStep => Kept(user_conversations, user_conversations')]_vars

\* C5 (amended): the same, for a save and a load that hit no I/O error.
C5_RoundTrip ==
    [][(RestartStep /\ save_result = "ok" /\ load_result' = "ok")
          => Kept(user_conversations, user_conversations')]_vars

\* a restarted process has loaded "c2", an id that only a reply can have set
C5_Witness ==
    /\ phase = "loaded"
    /\ runs = 1
    /\ load_result = "ok"
    /\ \E u \in Users : Get(user_conversations, u).conversation_id = "c2"

\* C6: after message handlings and a save, every entry of the backing file
\* belongs to a user who has a usable conversation id; a user who never got
\* one has no entry.
C6_OnlyUsersWithId ==
    (phase = "exited" /\ save_result = "ok") =>
        \A i \in DOMAIN storage_file.entries :
            TruthyStr(Get(user_conversations, storage_file.entries[i].k).conversation_id)

\* C7: a load that fails with a read or parse error leaves the in-memory
\* mapping as it was before the load (the empty mapping of a fresh process).
C7_FailedLoadLeavesMapping ==
    (phase = "loaded" /\ load_result = "error") => user_conversations = << >>

\* C8: save replaces the file atomically: a save that succeeds leaves the
\* complete new snapshot, a save that fails leaves the previous content.
C8_SaveAtomic ==
    [][ExitStep =>
          \/ save_result' = "ok" /\ storage_file' = JsonFile(Dump(user_conversations))
          \/ save_result' # "ok" /\ storage_file' = storage_file]_vars

----------------------------------------------------------------------------
(* Message handler and shutdown claims *)

\* C9: a failure of the typing indicator is ignored: the handler goes on to
\* look up the stored id and call the remote chat client.
C9_TypingFailureIgnored ==
    [][\A t \in Tasks :
          ( /\ phase = "running" /\ phase' = "running"
            /\ tasks[t].pc = "typing"
            /\ tasks'[t].pc # "typing" ) =>
          /\ tasks'[t].pc = "posting"
          /\ Len(tasks'[t].reqs) = 1]_vars

\* file f holds exactly the users with a non-empty state in d, each once and
\* with the id d holds
FileHoldsExactly(f, d) ==
    /\ f.kind = "object"
    /\ \A i, j \in DOMAIN f.entries : f.entries[i].k = f.entries[j].k => i = j
    /\ \A u \in Users :
          TruthyDict(Get(d, u)) <=> \E i \in DOMAIN f.entries : f.entries[i].k = u
    /\ \A i \in DOMAIN f.entries :
          /\ f.entries[i].v.type = "object"
          /\ f.entries[i].v.conversation_id
               = Get(d, f.entries[i].k).conversation_id

\* C10 as stated: after the shutdown handler the store was saved once and the
\* file holds exactly the users with a non-empty state, with their ids.
C10_Shutdown_Original ==
    phase = "exited" =>
        /\ saves = 1
        /\ FileHoldsExactly(storage_file, user_conversations)

\* C10 (amended): the shutdown handler saves once and exits; when that save
\* hits no write error the file holds exactly the users with a non-empty
\* state at the signal, each with its id; nothing changes the store or the
\* file in the exited process.
C10_Shutdown ==
    [][ /\ phase' = "exited" =>
              /\ saves' = 1
              /\ save_result' = "ok" =>
                    FileHoldsExactly(storage_file', user_conversations')
        /\ ExitStep => user_conversations' = user_conversations
        /\ (phase = "exited" /\ phase' = "exited") =>
              UNCHANGED <<user_conversations, storage_file, tasks>> ]_vars

\* a saved exit with one user holding "c2" and one only looked up
C10_Witness ==
    /\ phase = "exited"
    /\ save_result = "ok"
    /\ \E u, w \in Users :
          /\ Get(user_conversations, u).conversation_id = "c2"
          /\ Has(user_conversations, w)
          /\ Get(user_conversations, w) = EmptyDict
          /\ Len(storage_file.entries) = 1
          /\ storage_file.entries[1].k = u

----------------------------------------------------------------------------
(* Steps of a handler, for the claims below *)

Running == phase = "running" /\ phase' = "running"

\* the first request of task t's message is built and sent in this step
FirstRequestStep(t) == tasks[t].pc = "typing" /\ tasks'[t].pc = "posting"

\* the request of task t is sent again in this step
RetryStep(t) ==
    /\ tasks[t].pc = "posting"
    /\ tasks'[t].pc = "posting"
    /\ Len(tasks'[t].reqs) = Len(tasks[t].reqs) + 1

\* the send of task t returns and its reply is processed in this step
ReturnStep(t) == tasks[t].pc = "posting" /\ tasks'[t].pc = "replying"

StoredId(d, u) == Get(d, u).conversation_id

LastOut(r) == r.outs[Len(r.outs)]

\* C11: storing a conversation id changes the in-memory mapping only; the
\* backing file is unchanged by every handler step and changes only when
\* the shutdown handler saves.
C11_FileChangesOnlyAtShutdown ==
    [][ /\ storage_file' # storage_file => ExitStep
        /\ \A t \in Tasks : (phase = "running" /\ tasks'[t] # tasks[t]) =>
              storage_file' = storage_file ]_vars

\* a reply's id "c2" is in memory while the process runs and no file exists
C11_Witness ==
    /\ phase = "running"
    /\ storage_file = NoFile
    /\ \E t \in Tasks :
          /\ tasks[t].pc = "replying"
          /\ tasks[t].response.conversation_id = "c2"
          /\ StoredId(user_conversations, tasks[t].user_id) = "c2"

\* C12: for a success response without an answer field the text delivered
\* is the no-response placeholder, and a conversation id of that response is
\* stored all the same.
C12_MissingAnswerPlaceholder ==
    [][\A t \in Tasks :
          ( /\ ReturnStep(t)
            /\ LastOut(tasks'[t]).kind = "ok"
            /\ LastOut(tasks'[t]).body.answer = NoKey ) =>
          LET r == tasks'[t]
              body == LastOut(r).body
          IN  /\ r.text = "No response received"
              /\ body.conversation_id # NoKey =>
                    StoredId(user_conversations', r.user_id) = body.conversation_id]_vars

\* a success without answer that carried "c1": placeholder sent, "c1" stored
C12_Witness ==
    \E t \in Tasks :
        /\ tasks[t].pc = "replying"
        /\ LastOut(tasks[t]) = Ok([answer |-> NoKey, conversation_id |-> "c1"])
        /\ tasks[t].text = "No response received"
        /\ StoredId(user_conversations, tasks[t].user_id) = "c1"

\* C13: a user who has a non-empty stored id, one that is sent with the next
\* request, keeps such an id through every step of the message handlers,
\* whatever the remote API replies.
C13_IdNeverCleared ==
    [][\A u \in Users :
          (Running /\ TruthyStr(StoredId(user_conversations, u))) =>
              TruthyStr(StoredId(user_conversations', u))]_vars

\* C14: when a send that was retried after a 404 ends with a reply without a
\* conversation id, the stored id is not cleared: it is still the stale id
\* that was sent, and the first request of a message built while that id is
\* stored carries it again.
C14_StaleIdKept ==
    [][ /\ \A t \in Tasks :
              ( /\ ReturnStep(t)
                /\ Len(tasks'[t].outs) = 2
                /\ tasks'[t].response.conversation_id = NoKey ) =>
              LET u == tasks[t].user_id
                  stale == tasks'[t].reqs[1].conversation_id
              IN  /\ StoredId(user_conversations, u) = stale =>
                        StoredId(user_conversations', u) = stale
                  /\ Get(user_conversations', u) = Get(user_conversations, u)
        /\ \A t \in Tasks :
              ( /\ FirstRequestStep(t)
                /\ TruthyStr(StoredId(user_conversations, tasks[t].user_id)) ) =>
              tasks'[t].reqs[1].conversation_id
                  = StoredId(user_conversations, tasks[t].user_id) ]_vars

\* stale "c1" got 404, the retry ended without an id, "c1" is still stored
\* and another message of the same user has sent "c1" again
C14_Witness ==
    \E t, n \in Tasks :
        /\ t # n
        /\ tasks[t].pc = "replying"
        /\ Len(tasks[t].outs) = 2
        /\ tasks[t].reqs[1].conversation_id = "c1"
        /\ tasks[t].response.conversation_id = NoKey
        /\ StoredId(user_conversations, tasks[t].user_id) = "c1"
        /\ tasks[n].user_id = tasks[t].user_id
        /\ tasks[n].pc = "posting"
        /\ Len(tasks[n].reqs) = 1
        /\ tasks[n].reqs[1].conversation_id = "c1"

\* C15: a handling that ends with an error reply (status diagnostic or
\* service unavailable) leaves the stored id of the user as it was; the
\* stored id of a user changes only in a step that processes a reply with a
\* conversation id, and then it is that id.
C15_ErrorReplyKeepsId ==
    [][ /\ \A t \in Tasks :
              ReturnStep(t) =>
              LET r == tasks'[t]
              IN  /\ LastOut(r).kind \in {"status", "conn"} =>
                        /\ r.response.conversation_id = NoKey
                        /\ user_conversations' = user_conversations
                  /\ r.response.conversation_id # NoKey =>
                        StoredId(user_conversations', r.user_id)
                            = r.response.conversation_id
        /\ \A u \in Users :
              ( /\ Running
                /\ StoredId(user_conversations', u) # StoredId(user_conversations, u) ) =>
              \E t \in Tasks :
                  /\ ReturnStep(t)
                  /\ tasks[t].user_id = u
                  /\ tasks'[t].response.conversation_id # NoKey
                  /\ StoredId(user_conversations', u)
                         = tasks'[t].response.conversation_id ]_vars

\* a message sent with "c1" ended with the 500 diagnostic, "c1" still stored
C15_Witness ==
    \E t \in Tasks :
        /\ tasks[t].pc = "replying"
        /\ tasks[t].outs = << StatusError(500) >>
        /\ tasks[t].reqs[1].conversation_id = "c1"
        /\ StoredId(user_conversations, tasks[t].user_id) = "c1"

\* C16: with handlers interleaving at their awaits no update of a user's
\* entry is lost: the stored id of a user is the id carried by the reply
\* processed last among the replies to that user that carried one.
C16_NoLostUpdate ==
    \A u \in Users :
        last_reply_id[u] # NoKey =>
            StoredId(user_conversations, u) = last_reply_id[u]

\* two messages of one user in flight together, both answered with an id
C16_Witness ==
    \E t, n \in Tasks :
        /\ t # n
        /\ tasks[t].user_id = tasks[n].user_id
        /\ tasks[t].pc = "replying"
        /\ tasks[n].pc = "replying"
        /\ tasks[t].response.conversation_id = "c1"
        /\ tasks[n].response.conversation_id = "c2"
        /\ StoredId(user_conversations, tasks[t].user_id) = "c1"
        /\ last_reply_id[tasks[t].user_id] = "c1"

\* C17: every message in flight runs to completion: a handler ends only
\* after it delivered the reply text of its message.
C17_EveryMessageReplied ==
    [][\A t \in Tasks :
          (Running /\ tasks[t].pc # "idle" /\ tasks'[t].pc = "idle") =>
              tasks[t].pc = "replying"]_vars

\* Scheduling of the event loop: an await that can resume does resume (the
\* typing call, the POST with its 30 s timeout and reply_text all resolve),
\* and the framework runs error_handler for a handler that raised.
Fairness ==
    \A t \in Tasks :
        /\ WF_vars(send_chat_action_returns(t) \/ send_chat_action_raises(t))
        /\ WF_vars(\/ \E body \in Responses : post_returns(t, body)
                   \/ \E status \in ErrorStatuses : post_status_error(t, status)
                   \/ post_raises(t))
        /\ WF_vars(reply_text_returns(t))
        /\ WF_vars(error_handler(t))

FairSpec == Spec /\ Fairness

NoShutdown == [](phase # "exited")

\* C17 (the part about sends): with no shutdown every send returns a reply.
C17_SendReturns ==
    NoShutdown => \A t \in Tasks : (tasks[t].pc = "posting") ~> (tasks[t].pc = "replying")

\* C17 (the part about messages): with no shutdown every message received
\* gets its reply text handed to reply_text.
C17_MessageReplied ==
    NoShutdown => \A t \in Tasks : (tasks[t].pc = "typing") ~> (tasks[t].pc = "replying")

\* C18: the first request of a message carries a conversation id iff the
\* stored id of the user is non-empty when the request is built, and then
\* that id; a user never seen sends none; a retried request is the original
\* one without the conversation id.
C18_RequestCarriesStoredId ==
    [][ /\ \A t \in Tasks :
              FirstRequestStep(t) =>
              LET u == tasks[t].user_id
                  stored == StoredId(user_conversations, u)
                  req == tasks'[t].reqs[1]
              IN  /\ Len(tasks'[t].reqs) = 1
                  /\ req.conversation_id # NoKey <=> (stored # NoKey /\ stored # "")
                  /\ req.conversation_id # NoKey => req.conversation_id = stored
                  /\ ~Has(user_conversations, u) => req.conversation_id = NoKey
                  /\ req.user = u
                  /\ req.query = tasks[t].query
                  /\ req.inputs = "{}"
                  /\ req.response_mode = "blocking"
        /\ \A t \in Tasks :
              RetryStep(t) =>
                  /\ tasks'[t].reqs[1] = tasks[t].reqs[1]
                  /\ tasks'[t].reqs[2].conversation_id = NoKey
                  /\ tasks'[t].reqs[2]
                       = [tasks[t].reqs[1] EXCEPT !.conversation_id = NoKey] ]_vars

\* a request with stored "c1" was retried without it, and a user whose
\* stored id is empty sent a request without an id
C18_Witness ==
    /\ \E t \in Tasks :
          /\ Len(tasks[t].reqs) = 2
          /\ tasks[t].reqs[1].conversation_id = "c1"
          /\ tasks[t].reqs[2].conversation_id = NoKey
          /\ tasks[t].reqs[2].query = "hello"
    /\ \E t \in Tasks :
          /\ tasks[t].pc = "posting"
          /\ Len(tasks[t].reqs) = 1
          /\ tasks[t].reqs[1].conversation_id = NoKey
          /\ StoredId(user_conversations, tasks[t].user_id) = ""

\* C19: a handler step for user u changes the stored state of no other
\* user; the state of a user changes only when a reply to a request sent
\* with that user is processed, to the id that reply carried.
C19_UserIsolation ==
    [][\A v \in Users :
          /\ (Running /\ Get(user_conversations', v) # Get(user_conversations, v)) =>
                \E t \in Tasks :
                    /\ ReturnStep(t)
                    /\ tasks[t].user_id = v
                    /\ \A i \in DOMAIN tasks'[t].reqs : tasks'[t].reqs[i].user = v
                    /\ LastOut(tasks'[t]).kind = "ok"
                    /\ StoredId(user_conversations', v)
                         = LastOut(tasks'[t]).body.conversation_id
          /\ (Running /\ Has(user_conversations', v) # Has(user_conversations, v)) =>
                \E t \in Tasks : FirstRequestStep(t) /\ tasks[t].user_id = v]_vars

\* messages of two users in flight together: the reply to one stored "c2"
\* for it while the other user keeps "c1"
C19_Witness ==
    \E t, n \in Tasks :
        /\ tasks[t].user_id # tasks[n].user_id
        /\ tasks[t].pc = "replying"
        /\ tasks[t].response.conversation_id = "c2"
        /\ tasks[n].pc = "posting"
        /\ StoredId(user_conversations, tasks[t].user_id) = "c2"
        /\ StoredId(user_conversations, tasks[n].user_id) = "c1"

====
